---- MODULE Spec2Model ----
(***************************************************************************)
(* A model of src/main.rs of the planet renderer: the sphere tessellator   *)
(* create_sphere, run slot by slot on buffers allocated as State::new      *)
(* allocates them, the Shader unit (load, reload_if_changed) running       *)
(* against source files that an external writer modifies, and the frame    *)
(* loop of main with its input, its user interface and its two passes.     *)
(*                                                                         *)
(* f32 values are kept symbolic.  A vector is [s, th, ph]: the point       *)
(* s * (sin t cos p, sin t sin p, cos t) with t = th[1]/th[2] * PI and     *)
(* p = ph[1]/ph[2] * 2 PI.  A texture coordinate is a fraction <<n, d>>.   *)
(***************************************************************************)
EXTENDS Integers, Sequences, FiniteSets, TLC

VARIABLES
    \* ---- create_sphere ----
    segments,   \* argument `segments`
    radius,     \* argument `radius`
    vertices,   \* argument `vertices`: slot -> Vertex
    indices,    \* argument `indices`: slot -> Triangle.ind
    vwrites,    \* history: slot -> number of writes create_sphere made to it
    twrites,    \* history: slot -> the bands that wrote the triangle slot
    spc,        \* position in create_sphere
    sj, si,     \* the loop counters j and i
    ref,        \* <<>> or <<the buffers a call with segments = 2 returned>>
    \* ---- Shader ----
    files,      \* the file system: path -> [st, mtime, good]
    clock,      \* the wall clock the file system stamps writes with
    shader,     \* the Shader unit: program, program_time, frag_path, vert_path
    pc,         \* position of the thread in load / reload_if_changed
    op,         \* the running entry point: "load" or "reload"
    t_first,    \* get_shader_change_time: modified() of the first metadata
    new_time,   \* the result of get_shader_change_time
    src_vert,   \* Shader::new: the vertex source read
    src_frag,   \* Shader::new: the fragment source read
    nprog,      \* program handles created so far
    \* ---- history of the shader calls ----
    pre,        \* the unit when the running (or last) reload_if_changed began
    res,        \* how the last finished call ended
    clean,      \* no file was modified since the running call began
    done,       \* the finished calls since the files were last modified
    touch,      \* one touch of an up-to-date unit: [on, compiles, checks]
    \* ---- main: the State p and the locals of the frame loop ----
    fpc,        \* position in main's frame loop
    unit_i,     \* which of the five reload_if_changed calls is next
    run, right_pressed, left_pressed, rot, last_time, average_frame_time,
    sun_pos, sun_angle,
    wheel,      \* p.mouse_state.wheel
    programs,   \* the five Shader fields of p: name -> [program, program_time]
    shadowmap_framebuffer,  \* sizes of lightmap_texture and shadowmap_depthbuffer
    dt, width, height, projection,
    \* ---- what main runs against ----
    now,        \* Instant::now()
    disk,       \* the sources of each unit: name -> [st, mtime]
    edits,      \* modifications of source files so far
    fbsize,     \* display.get_framebuffer_dimensions()
    drag,       \* <<>> or <<the angle the user drags the slider to>>
    device,     \* "ok", or "lost": draw calls return an error
    \* ---- history of the frame ----
    log,        \* the calls main made since the frame began
    down,       \* the keys whose last delivered KeyboardInput was Pressed
    scrolled    \* the deltas of the MouseWheel events delivered in this frame

sphereVars == <<segments, radius, vertices, indices, vwrites, twrites, spc, sj, si, ref>>

shaderVars == <<files, clock, shader, pc, op, t_first, new_time, src_vert, src_frag,
                nprog, pre, res, clean, done, touch>>

frameVars == <<fpc, unit_i, run, right_pressed, left_pressed, rot, last_time,
               average_frame_time, sun_pos, sun_angle, wheel, programs,
               shadowmap_framebuffer, dt, width, height, projection,
               now, disk, edits, fbsize, drag, device, log, down, scrolled>>

vars == <<segments, radius, vertices, indices, vwrites, twrites, spc, sj, si, ref,
          files, clock, shader, pc, op, t_first, new_time, src_vert, src_frag,
          nprog, pre, res, clean, done, touch,
          fpc, unit_i, run, right_pressed, left_pressed, rot, last_time,
          average_frame_time, sun_pos, sun_angle, wheel, programs,
          shadowmap_framebuffer, dt, width, height, projection,
          now, disk, edits, fbsize, drag, device, log, down, scrolled>>

\* Largest `segments` a call is made with.
MaxSegs == 4
\* Radii are 1..MaxRadius.
MaxRadius == 2
\* The wall clock stops at MaxClock: the writer stamps at most
\* MaxClock - InitClock modifications.
MaxClock == 3
\* The wall clock when the program starts; the source files are older.
InitClock == 1
\* Instant::now() stops at MaxNow ticks after State::new.
MaxNow == 2
\* The source files of the five units are modified at most MaxEdits times
\* while the frame loop runs.
MaxEdits == 2
\* Framebuffer widths and heights are 1..MaxDim.
MaxDim == 2
\* The slider is dragged to whole quarter turns, -MaxQuarter..MaxQuarter.
MaxQuarter == 1
\* Scroll events carry a delta in 1..MaxWheel.
MaxWheel == 1

-----------------------------------------------------------------------------
(* Vertex, Triangle: main.rs 21-32, with #[derive(Default)] *)

Vec(s, th, ph) == [s |-> s, th |-> th, ph |-> ph]

ZeroVec == Vec(0, <<0, 1>>, <<0, 1>>)

DefaultVertex == [pos |-> ZeroVec, normal |-> ZeroVec, tex |-> <<<<0, 1>>, <<0, 1>>>>]

DefaultTriangle == <<0, 0, 0>>

(* State::new, main.rs 257-263: the buffers handed to create_sphere *)
HSEGS(VSEGS) == VSEGS * 2

NVERTS(VSEGS) == 1 + (VSEGS - 1) * (HSEGS(VSEGS) + 1) + 1

NTRIS(VSEGS) == HSEGS(VSEGS) + (VSEGS - 2) * HSEGS(VSEGS) * 2 + HSEGS(VSEGS)

\* The caller's VSEGS for a call with `segments` = s: s itself, and 2 for the
\* degenerate calls, whose buffers are those of segments = 2.
BufSegs(s) == IF s < 2 THEN 2 ELSE s

vertex_list(s) == [k \in 0..(NVERTS(BufSegs(s)) - 1) |-> DefaultVertex]

index_list(s) == [k \in 0..(NTRIS(BufSegs(s)) - 1) |-> DefaultTriangle]

-----------------------------------------------------------------------------
(* create_sphere, main.rs 144-228 *)

vsegs_noclamp == segments

vsegs == IF segments < 2 THEN 2 ELSE segments

hsegs == vsegs * 2

nverts == 1 + (vsegs - 1) * (hsegs + 1) + 1

\* The phase after each loop; `for x in 0..n` runs its body only when n > 0.
AfterBottomCap == "done"

AfterMiddle == IF hsegs > 0 THEN "bottomcap" ELSE AfterBottomCap

AfterTopCap == IF vsegs - 2 > 0 /\ hsegs > 0 THEN "middle" ELSE AfterMiddle

AfterRing == IF hsegs > 0 THEN "topcap" ELSE AfterTopCap

AfterPoles == IF vsegs - 1 > 0 /\ hsegs > 0 THEN "ring" ELSE AfterRing

TopVertex == [pos |-> Vec(radius, <<0, 1>>, <<0, 1>>),
              normal |-> Vec(1, <<0, 1>>, <<0, 1>>),
              tex |-> <<<<1, 2>>, <<1, 1>>>>]

BottomVertex == [pos |-> Vec(radius, <<1, 1>>, <<0, 1>>),
                 normal |-> Vec(1, <<1, 1>>, <<0, 1>>),
                 tex |-> <<<<1, 2>>, <<0, 1>>>>]

RingVertex(j, i) == [pos |-> Vec(radius, <<j + 1, vsegs>>, <<i, hsegs>>),
                     normal |-> Vec(1, <<j + 1, vsegs>>, <<i, hsegs>>),
                     tex |-> <<<<i, hsegs>>, <<vsegs - (j + 1), vsegs>>>>]

RingBase(j, i) == 1 + j * (hsegs + 1) + i

MiddleBase_overlap(j, i) == hsegs + (j * hsegs + i)

MiddleBase(j, i) == hsegs + 2 * (j * hsegs + i)

BottomCapBase == hsegs + 2 * (vsegs - 2) * hsegs

\* A write to vertices[k]; an index outside the slice panics.
WriteVertex(k, v, next, j, i) ==
    IF k \in DOMAIN vertices
    THEN /\ vertices' = [vertices EXCEPT ![k] = v]
         /\ vwrites' = [vwrites EXCEPT ![k] = @ + 1]
         /\ spc' = next /\ sj' = j /\ si' = i
    ELSE /\ spc' = "panic"
         /\ UNCHANGED <<vertices, vwrites, sj, si>>

\* Writes to indices[k] for each <<k, triangle>> of ws, in order.
RECURSIVE PutTris(_, _)
PutTris(f, ws) ==
    IF ws = <<>> THEN f
    ELSE PutTris([f EXCEPT ![Head(ws)[1]] = Head(ws)[2]], Tail(ws))

RECURSIVE NoteTris(_, _, _)
NoteTris(f, ws, band) ==
    IF ws = <<>> THEN f
    ELSE NoteTris([f EXCEPT ![Head(ws)[1]] = Append(@, band)], Tail(ws), band)

WriteTris(ws, band, next, j, i) ==
    IF \A n \in 1..Len(ws) : ws[n][1] \in DOMAIN indices
    THEN /\ indices' = PutTris(indices, ws)
         /\ twrites' = NoteTris(twrites, ws, band)
         /\ spc' = next /\ sj' = j /\ si' = i
    ELSE /\ spc' = "panic"
         /\ UNCHANGED <<indices, twrites, sj, si>>

\* main.rs 150-157
Top ==
    /\ spc = "top"
    /\ WriteVertex(0, TopVertex, "bottom", 0, 0)
    /\ UNCHANGED <<segments, radius, indices, twrites, ref>>
    /\ UNCHANGED <<shaderVars, frameVars>>

\* main.rs 160-168
Bottom ==
    /\ spc = "bottom"
    /\ WriteVertex(nverts - 1, BottomVertex, AfterPoles, 0, 0)
    /\ UNCHANGED <<segments, radius, indices, twrites, ref>>
    /\ UNCHANGED <<shaderVars, frameVars>>

\* main.rs 170-188: one pass of the inner loop body
Ring ==
    /\ spc = "ring"
    /\ IF si + 1 < hsegs
       THEN WriteVertex(RingBase(sj, si), RingVertex(sj, si), "ring", sj, si + 1)
       ELSE IF sj + 1 < vsegs - 1
            THEN WriteVertex(RingBase(sj, si), RingVertex(sj, si), "ring", sj + 1, 0)
            ELSE WriteVertex(RingBase(sj, si), RingVertex(sj, si), AfterRing, 0, 0)
    /\ UNCHANGED <<segments, radius, indices, twrites, ref>>
    /\ UNCHANGED <<shaderVars, frameVars>>

\* main.rs 191-195
TopCapTri_flipped(i) == <<0, 2 + i, 1 + i>>

TopCapTri(i) == <<0, 1 + i, 2 + i>>

TopCap ==
    /\ spc = "topcap"
    /\ IF si + 1 < hsegs
       THEN WriteTris(<<<<si, TopCapTri(si)>>>>, "top", "topcap", 0, si + 1)
       ELSE WriteTris(<<<<si, TopCapTri(si)>>>>, "top", AfterTopCap, 0, 0)
    /\ UNCHANGED <<segments, radius, vertices, vwrites, ref>>
    /\ UNCHANGED <<shaderVars, frameVars>>

\* main.rs 199-217: the two triangles of quad (j, i)
MiddleTris(j, i) ==
    LET base == MiddleBase(j, i)
        i0 == 1 + j * (hsegs + 1) + i
        i00 == j * (hsegs + 1)
    IN IF i = hsegs - 1
       THEN << <<base, <<i0, i0 + hsegs + 1, i00 + 1>>>>,
               <<base + 1, <<i00 + 1, i0 + hsegs + 1, i00 + hsegs + 2>>>> >>
       ELSE << <<base, <<i0, i0 + hsegs + 1, i0 + 1>>>>,
               <<base + 1, <<i0 + 1, i0 + hsegs + 1, i0 + hsegs + 2>>>> >>

\* main.rs 197-219
Middle ==
    /\ spc = "middle"
    /\ IF si + 1 < hsegs
       THEN WriteTris(MiddleTris(sj, si), "middle", "middle", sj, si + 1)
       ELSE IF sj + 1 < vsegs - 2
            THEN WriteTris(MiddleTris(sj, si), "middle", "middle", sj + 1, 0)
            ELSE WriteTris(MiddleTris(sj, si), "middle", AfterMiddle, 0, 0)
    /\ UNCHANGED <<segments, radius, vertices, vwrites, ref>>
    /\ UNCHANGED <<shaderVars, frameVars>>

\* main.rs 222-227
BottomCapTri_past(i) == <<nverts, nverts - 1 - i, nverts - 2 - i>>

BottomCapTri(i) == <<nverts - 1, nverts - 2 - i, nverts - 3 - i>>

BottomCap ==
    /\ spc = "bottomcap"
    /\ IF si + 1 < hsegs
       THEN WriteTris(<<<<BottomCapBase + si, BottomCapTri(si)>>>>, "bottom", "bottomcap", 0, si + 1)
       ELSE WriteTris(<<<<BottomCapBase + si, BottomCapTri(si)>>>>, "bottom", AfterBottomCap, 0, 0)
    /\ UNCHANGED <<segments, radius, vertices, vwrites, ref>>
    /\ UNCHANGED <<shaderVars, frameVars>>

\* main.rs 270-272: `tri.ind[n] as u32`, the two's complement of an i32 taken
\* as an unsigned number, written <<high, low>> in halves of 16 bits.
Half == 65536

as_u32(x) ==
    IF x >= 0
    THEN <<x \div Half, x % Half>>
    ELSE <<(Half - 1) - ((0 - x - 1) \div Half), (Half - 1) - ((0 - x - 1) % Half)>>

\* main.rs 267-273: the index list flattened for the IndexBuffer
flat_index_list ==
    [n \in 0..(3 * (NTRIS(BufSegs(segments))) - 1) |->
        as_u32(indices[n \div 3][(n % 3) + 1])]

\* What a finished call leaves behind.
Returned == [radius |-> radius, vertices |-> vertices, indices |-> indices,
             vwrites |-> vwrites, twrites |-> twrites]

\* A fresh call of create_sphere(&mut vertex_list, &mut index_list, r, s),
\* main.rs 262-265.
Call(s, r) ==
    /\ segments' = s
    /\ radius' = r
    /\ vertices' = vertex_list(s)
    /\ indices' = index_list(s)
    /\ vwrites' = [k \in DOMAIN vertex_list(s) |-> 0]
    /\ twrites' = [k \in DOMAIN index_list(s) |-> <<>>]
    /\ spc' = "top" /\ sj' = 0 /\ si' = 0

\* The next call, made after the previous one returned; the buffers of a call
\* with segments = 2 are kept for comparison.
CallAgain ==
    /\ spc = "done"
    /\ \E s \in 0..MaxSegs, r \in 1..MaxRadius : Call(s, r)
    /\ ref' = IF segments = 2 THEN <<Returned>> ELSE ref
    /\ UNCHANGED <<shaderVars, frameVars>>

-----------------------------------------------------------------------------
(* The shader source files and the writer outside the program.  A file is   *)
(* [st, mtime, good]: present ("ok"), present but unreadable, or missing;   *)
(* its modification time, which also names the version of its content; and  *)
(* whether that content compiles.  The file system stamps a modification    *)
(* with the wall clock, which has moved on since the previous one.          *)

\* format!("shaders/{}.frag", name), format!("shaders/{}.vert", name)
FragPath == "shaders/planet.frag"

VertPath == "shaders/planet.vert"

Paths == {FragPath, VertPath}

NoTouch == [on |-> FALSE, compiles |-> 0, checks |-> 0]

loaded == shader.frag_path # ""

\* The unit holds the program of the sources now on disk, stamped with their
\* newest modification time.
UpToDate ==
    /\ loaded
    /\ \A f \in Paths : files[f].st = "ok"
    /\ shader.program.frag = files[shader.frag_path].mtime
    /\ shader.program.vert = files[shader.vert_path].mtime
    /\ shader.program_time = IF files[FragPath].mtime > files[VertPath].mtime
                             THEN files[FragPath].mtime ELSE files[VertPath].mtime

\* What every modification does to the history.
Modified(touched) ==
    /\ clean' = FALSE
    /\ done' = <<>>
    /\ touch' = IF touched /\ UpToDate
                THEN [on |-> TRUE, compiles |-> 0, checks |-> 0]
                ELSE NoTouch
    /\ UNCHANGED <<shader, pc, op, t_first, new_time, src_vert, src_frag, nprog, pre, res>>
    /\ UNCHANGED <<sphereVars, frameVars>>

\* The writer saves new content, which may or may not compile.
Write(f) ==
    /\ clock < MaxClock
    /\ clock' = clock + 1
    /\ \E g \in BOOLEAN :
          files' = [files EXCEPT ![f] = [st |-> "ok", mtime |-> clock + 1, good |-> g]]
    /\ Modified(FALSE)

\* The writer touches the file: a new modification time, the content kept.
Touch(f) ==
    /\ clock < MaxClock
    /\ files[f].st # "missing"
    /\ clock' = clock + 1
    /\ files' = [files EXCEPT ![f].mtime = clock + 1]
    /\ Modified(TRUE)

\* The writer removes the file.
Remove(f) ==
    /\ files[f].st # "missing"
    /\ files' = [files EXCEPT ![f].st = "missing"]
    /\ UNCHANGED clock
    /\ Modified(FALSE)

\* The writer takes away or gives back the permission to read the file.
Chmod(f) ==
    /\ files[f].st # "missing"
    /\ files' = [files EXCEPT ![f].st = IF @ = "ok" THEN "unreadable" ELSE "ok"]
    /\ UNCHANGED clock
    /\ Modified(FALSE)

Writer == \E f \in Paths : Write(f) \/ Touch(f) \/ Remove(f) \/ Chmod(f)

-----------------------------------------------------------------------------
(* Shader, main.rs 57-142 *)

NoProgram == [id |-> 0, vert |-> 0, frag |-> 0]

NoSource == [mtime |-> 0, good |-> FALSE]

NoShader == [program |-> NoProgram, program_time |-> 0, frag_path |-> "", vert_path |-> ""]

\* The paths of the running call: Shader::load formats them (main.rs 87-88),
\* reload_if_changed passes the unit's own (main.rs 124, 129-130).
frag_path == IF op = "load" THEN FragPath ELSE shader.frag_path

vert_path == IF op = "load" THEN VertPath ELSE shader.vert_path

\* main.rs 63: max(metadata_vert.modified()?, metadata_frag.modified()?)
ChangeTime_first(a, b) == a

ChangeTime(a, b) == IF a > b THEN a ELSE b

\* main.rs 125: new_time > self.program_time
Newer_or_equal(t) == t >= shader.program_time

Newer(t) == t > shader.program_time

\* main.rs 115-120: the Shader that Shader::new returns
Shader_new_stale(program) ==
    [program |-> program, program_time |-> shader.program_time,
     frag_path |-> frag_path, vert_path |-> vert_path]

Shader_new(program) ==
    [program |-> program, program_time |-> new_time,
     frag_path |-> frag_path, vert_path |-> vert_path]

\* main.rs 135-137: the Err arm of reload_if_changed prints and leaves self
ReloadErr_stamp(self) == [self EXCEPT !.program_time = new_time]

ReloadErr(self) == self

\* The call returns: load to State::new, reload_if_changed to the frame loop.
\* A failed load ends the program (main.rs 309, 401).
Return(result, self, compiled) ==
    /\ shader' = self
    /\ res' = result
    /\ pc' = IF op = "load" /\ result # "ok" THEN "exit" ELSE "idle"
    /\ t_first' = 0 /\ new_time' = 0
    /\ src_vert' = NoSource /\ src_frag' = NoSource
    /\ done' = IF op = "reload" /\ clean
               THEN (IF done = <<>> THEN <<>> ELSE <<done[Len(done)]>>) \o
                    <<[compiled |-> compiled, res |-> result, changed |-> self # pre]>>
               ELSE <<>>
    /\ touch' = IF touch.on
                THEN [touch EXCEPT
                        !.checks = IF op = "reload" /\ clean /\ @ < 2 THEN @ + 1 ELSE @,
                        !.compiles = IF compiled /\ @ < 2 THEN @ + 1 ELSE @]
                ELSE touch
    /\ UNCHANGED <<files, clock, op, pre, clean>>
    /\ UNCHANGED <<sphereVars, frameVars>>

\* main.rs 123-124: the frame loop calls reload_if_changed (main.rs 413)
Check ==
    /\ pc = "idle"
    /\ pc' = "meta_first"
    /\ op' = "reload"
    /\ pre' = shader
    /\ clean' = TRUE
    /\ UNCHANGED <<files, clock, shader, t_first, new_time, src_vert, src_frag, nprog,
                   res, done, touch>>
    /\ UNCHANGED <<sphereVars, frameVars>>

\* main.rs 61: fs::metadata(frag_path)?
MetaFirst ==
    /\ pc = "meta_first"
    /\ IF files[frag_path].st = "missing"
       THEN /\ Return("meta_error", shader, FALSE)
            /\ UNCHANGED nprog
       ELSE /\ t_first' = files[frag_path].mtime
            /\ pc' = "meta_second"
            /\ UNCHANGED <<files, clock, shader, op, new_time, src_vert, src_frag, nprog,
                           pre, res, clean, done, touch>>
            /\ UNCHANGED <<sphereVars, frameVars>>

\* main.rs 62-63 and, in reload_if_changed, the test of main.rs 125
MetaSecond ==
    /\ pc = "meta_second"
    /\ IF files[vert_path].st = "missing"
       THEN /\ Return("meta_error", shader, FALSE)
            /\ UNCHANGED nprog
       ELSE LET t == ChangeTime(t_first, files[vert_path].mtime)
            IN IF op = "reload" /\ ~Newer(t)
               THEN /\ Return("unchanged", shader, FALSE)
                    /\ UNCHANGED nprog
               ELSE /\ new_time' = t
                    /\ pc' = "read_vert"
                    /\ UNCHANGED <<files, clock, shader, op, t_first, src_vert, src_frag,
                                   nprog, pre, res, clean, done, touch>>
                    /\ UNCHANGED <<sphereVars, frameVars>>

\* The error return of Shader::new: `?` in load, the Err arm in reload_if_changed.
NewFailed(result, compiled) ==
    Return(result, IF op = "reload" THEN ReloadErr(shader) ELSE shader, compiled)

\* main.rs 105: fs::read_to_string(&*vert_path)?
ReadVert ==
    /\ pc = "read_vert"
    /\ IF files[vert_path].st # "ok"
       THEN /\ NewFailed("read_error", FALSE)
            /\ UNCHANGED nprog
       ELSE /\ src_vert' = [mtime |-> files[vert_path].mtime, good |-> files[vert_path].good]
            /\ pc' = "read_frag"
            /\ UNCHANGED <<files, clock, shader, op, t_first, new_time, src_frag, nprog,
                           pre, res, clean, done, touch>>
            /\ UNCHANGED <<sphereVars, frameVars>>

\* main.rs 109: fs::read_to_string(&*frag_path)?
ReadFrag ==
    /\ pc = "read_frag"
    /\ IF files[frag_path].st # "ok"
       THEN /\ NewFailed("read_error", FALSE)
            /\ UNCHANGED nprog
       ELSE /\ src_frag' = [mtime |-> files[frag_path].mtime, good |-> files[frag_path].good]
            /\ pc' = "compile"
            /\ UNCHANGED <<files, clock, shader, op, t_first, new_time, src_vert, nprog,
                           pre, res, clean, done, touch>>
            /\ UNCHANGED <<sphereVars, frameVars>>

\* main.rs 116: Program::new(facade, input)?, then `*self = program` (main.rs
\* 132-134) or the return of the new Shader to State::new (main.rs 309)
Compile ==
    /\ pc = "compile"
    /\ IF src_vert.good /\ src_frag.good
       THEN /\ nprog' = nprog + 1
            /\ Return("ok", Shader_new([id |-> nprog + 1, vert |-> src_vert.mtime,
                                        frag |-> src_frag.mtime]), TRUE)
       ELSE /\ NewFailed("compile_error", TRUE)
            /\ UNCHANGED nprog

Thread == Check \/ MetaFirst \/ MetaSecond \/ ReadVert \/ ReadFrag \/ Compile

-----------------------------------------------------------------------------
(* main, main.rs 350-757: what the frame loop runs against.  The sources of *)
(* a unit are taken together as [st, mtime]: st is "ok", "broken" (they do  *)
(* not compile), "unreadable" or "missing", and mtime is their newest       *)
(* modification time, which also names the version of their content.  The   *)
(* events that are waiting when poll_events is called are delivered one by  *)
(* one while it runs.                                                       *)

\* The Shader fields of State in the order of main.rs 413-417.
Units == <<"planet_program", "planet_shadowmap_program", "cloud_program",
           "cloud_shadowmap_program", "star_program">>

UnitNames == {Units[n] : n \in 1..Len(Units)}

Sizes == (1..MaxDim) \X (1..MaxDim)

\* The size of the window when main starts.
StartSize == <<1, 1>>

\* The slider's range, main.rs 338.
SliderMin == -180

SliderMax == 180

Angles == {a \in {90 * q : q \in (0 - MaxQuarter)..MaxQuarter} :
              SliderMin <= a /\ a <= SliderMax}

\* Time passes before Instant::now() of main.rs 405 is read.
Tick ==
    /\ fpc = "head"
    /\ now < MaxNow
    /\ now' = now + 1
    /\ UNCHANGED <<fpc, unit_i, run, right_pressed, left_pressed, rot, last_time,
                   average_frame_time, sun_pos, sun_angle, wheel, programs,
                   shadowmap_framebuffer, dt, width, height, projection,
                   disk, edits, fbsize, drag, device, log, down, scrolled>>
    /\ UNCHANGED <<sphereVars, shaderVars>>

\* The sources of the unit that is checked next are modified.
FsChange ==
    /\ fpc = "reload"
    /\ edits < MaxEdits
    /\ edits' = edits + 1
    /\ \E st \in {"ok", "broken", "unreadable", "missing"} :
          disk' = [disk EXCEPT ![Units[unit_i]] = [st |-> st, mtime |-> edits + 1]]
    /\ UNCHANGED <<fpc, unit_i, run, right_pressed, left_pressed, rot, last_time,
                   average_frame_time, sun_pos, sun_angle, wheel, programs,
                   shadowmap_framebuffer, dt, width, height, projection,
                   now, fbsize, drag, device, log, down, scrolled>>
    /\ UNCHANGED <<sphereVars, shaderVars>>

\* The window is resized before get_framebuffer_dimensions of main.rs 536.
Resize ==
    /\ fpc = "update"
    /\ \E s \in Sizes \ {fbsize} : fbsize' = s
    /\ UNCHANGED <<fpc, unit_i, run, right_pressed, left_pressed, rot, last_time,
                   average_frame_time, sun_pos, sun_angle, wheel, programs,
                   shadowmap_framebuffer, dt, width, height, projection,
                   now, disk, edits, drag, device, log, down, scrolled>>
    /\ UNCHANGED <<sphereVars, shaderVars>>

\* The user drags the slider of update_ui to another angle.
DragSlider ==
    /\ fpc = "update"
    /\ drag = <<>>
    /\ \E a \in Angles \ {sun_angle} : drag' = <<a>>
    /\ UNCHANGED <<fpc, unit_i, run, right_pressed, left_pressed, rot, last_time,
                   average_frame_time, sun_pos, sun_angle, wheel, programs,
                   shadowmap_framebuffer, dt, width, height, projection,
                   now, disk, edits, fbsize, device, log, down, scrolled>>
    /\ UNCHANGED <<sphereVars, shaderVars>>

\* The graphics device fails: the draw calls from now on return an error.
DeviceFault ==
    /\ fpc \in {"shadow", "composite"}
    /\ device = "ok"
    /\ device' = "lost"
    /\ UNCHANGED <<fpc, unit_i, run, right_pressed, left_pressed, rot, last_time,
                   average_frame_time, sun_pos, sun_angle, wheel, programs,
                   shadowmap_framebuffer, dt, width, height, projection,
                   now, disk, edits, fbsize, drag, log, down, scrolled>>
    /\ UNCHANGED <<sphereVars, shaderVars>>

-----------------------------------------------------------------------------
(* main, main.rs 350-757, and update_ui, main.rs 327-348.  An Instant is a  *)
(* number of ticks and dt a number of ticks; rot is in degrees per tick of  *)
(* dt.  average_frame_time is kept as "zero" or "positive": in f32 the      *)
(* product of a positive value and 0.95 is positive, so it is zero exactly  *)
(* as long as every dt so far was zero.  A cosine or sine is a whole number *)
(* of TrigUnit-ths, rounded from the f32 result; a sun vector [k, v] is the *)
(* vector k * v.                                                            *)

\* The Shader of a unit as State::new loaded it (main.rs 309-313).
Loaded == [program |-> [src |-> 0], program_time |-> 0]

\* main.rs 125: new_time > self.program_time
Stale_always(self, t) == TRUE

Stale(self, t) == t > self.program_time

\* main.rs 123-141 against the sources d, with the file contents read and the
\* programs compiled on the way.
reload_if_changed(self, d) ==
    IF d.st = "missing"
    THEN [self |-> self, result |-> "meta_error", reads |-> 0, compiles |-> 0]
    ELSE IF ~Stale(self, d.mtime)
    THEN [self |-> self, result |-> "unchanged", reads |-> 0, compiles |-> 0]
    ELSE IF d.st = "unreadable"
    THEN [self |-> self, result |-> "read_error", reads |-> 1, compiles |-> 0]
    ELSE IF d.st = "broken"
    THEN [self |-> self, result |-> "compile_error", reads |-> 2, compiles |-> 1]
    ELSE [self |-> [program |-> [src |-> d.mtime], program_time |-> d.mtime],
          result |-> "ok", reads |-> 2, compiles |-> 1]

\* main.rs 413-417: reload_if_changed returns (), there is nothing to `?`.
Propagates_failure(result) == result \notin {"ok", "unchanged"}

Propagates(result) == FALSE

\* main.rs 411: average_frame_time * 0.95 + dt * 0.05
Smoothed(avg, d) == IF avg = "zero" /\ d = 0 THEN "zero" ELSE "positive"

\* main.rs 529, 533
AngularSpeed == 45

\* main.rs 528-534
Rotate_exclusive(r, right, left, d) ==
    IF right THEN r + d * AngularSpeed
    ELSE IF left THEN r - d * AngularSpeed ELSE r

Rotate(r, right, left, d) ==
    LET r1 == IF right THEN r + d * AngularSpeed ELSE r
    IN IF left THEN r1 - d * AngularSpeed ELSE r1

TrigUnit == 100000000

\* main.rs 341: p.sun_angle.to_radians().cos() in f32
Cos(a) == CASE a = 0 -> TrigUnit
            [] a \in {90, -90} -> -4
            [] a \in {180, -180} -> 0 - TrigUnit

\* main.rs 342: p.sun_angle.to_radians().sin() in f32
Sin(a) == CASE a = 0 -> 0
            [] a = 90 -> TrigUnit
            [] a = -90 -> 0 - TrigUnit
            [] a = 180 -> -9
            [] a = -180 -> 9

\* main.rs 343
SunDistance == 10000

\* main.rs 341-343
SunVector_swapped(a) ==
    LET x == Cos(a)
        y == Sin(a)
    IN [k |-> SunDistance, v |-> <<x, 0, 0 - y>>]

SunVector(a) ==
    LET x == Cos(a)
        y == Sin(a)
    IN [k |-> SunDistance, v |-> <<y, 0, 0 - x>>]

\* main.rs 306: vec3(0.0, 0.0, -1.0)
InitialSunPos == [k |-> 1, v |-> <<0, 0, 0 - TrigUnit>>]

\* main.rs 578-596, 657-696: DrawParameters
clockwise_params ==
    [depth |-> "IfLess", blend |-> "default", backface_culling |-> "CullClockwise"]

counter_clockwise_params_cw ==
    [depth |-> "IfLess", blend |-> "default", backface_culling |-> "CullClockwise"]

counter_clockwise_params ==
    [depth |-> "IfLess", blend |-> "default", backface_culling |-> "CullCounterClockwise"]

planet_params ==
    [depth |-> "IfLess", blend |-> "default", backface_culling |-> "CullClockwise"]

cloud_params_back_cw ==
    [depth |-> "IfLess", blend |-> "alpha_blending", backface_culling |-> "CullClockwise"]

cloud_params_back ==
    [depth |-> "IfLess", blend |-> "alpha_blending", backface_culling |-> "CullCounterClockwise"]

cloud_params_forward ==
    [depth |-> "IfLess", blend |-> "alpha_blending", backface_culling |-> "CullClockwise"]

star_params ==
    [depth |-> "IfLess", blend |-> "default", backface_culling |-> "CullingDisabled"]

\* One call of Surface::draw with the program the unit holds now.
Draw(target, vb, ib, unit, uniforms, params) ==
    [call |-> "draw", target |-> target, vertex_buffer |-> vb, index_buffer |-> ib,
     unit |-> unit, program |-> programs[unit].program, uniforms |-> uniforms,
     params |-> params]

Clear(call, target) == [call |-> call, target |-> target]

\* main.rs 598-623
ShadowCalls ==
    << Clear("clear_color", "shadowmap_framebuffer"),
       Clear("clear_depth", "shadowmap_framebuffer"),
       Draw("shadowmap_framebuffer", "vertex_buffer", "index_buffer",
            "planet_shadowmap_program", "planet_uniforms", clockwise_params),
       Draw("shadowmap_framebuffer", "vertex_buffer", "index_buffer",
            "cloud_shadowmap_program", "cloud_uniforms", counter_clockwise_params),
       Draw("shadowmap_framebuffer", "vertex_buffer", "index_buffer",
            "cloud_shadowmap_program", "cloud_uniforms", clockwise_params) >>

\* main.rs 698-752
CompositeCalls ==
    << Clear("clear_color", "target"),
       Clear("clear_depth", "target"),
       Draw("target", "vertex_buffer", "index_buffer",
            "planet_program", "planet_uniforms", planet_params),
       Draw("target", "star_buffer", "NoIndices(Points)",
            "star_program", "star_uniforms", star_params),
       Draw("target", "vertex_buffer", "index_buffer",
            "cloud_program", "cloud_uniforms", cloud_params_back),
       Draw("target", "vertex_buffer", "index_buffer",
            "cloud_program", "cloud_uniforms", cloud_params_forward),
       [call |-> "blit_from_simple_framebuffer", target |-> "target",
        source |-> "shadowmap_framebuffer", rect |-> <<width, height>>],
       [call |-> "render", target |-> "target"],
       [call |-> "finish", target |-> "target"] >>

\* main.rs 403-411: `while p.run` holds, dt and the average
BeginFrame ==
    /\ fpc = "head"
    /\ run
    /\ dt' = now - last_time
    /\ last_time' = now
    /\ average_frame_time' = Smoothed(average_frame_time, now - last_time)
    /\ fpc' = "reload"
    /\ unit_i' = 1
    /\ width' = 0 /\ height' = 0 /\ projection' = <<0, 0>>
    /\ log' = <<>>
    /\ scrolled' = {}
    /\ UNCHANGED <<run, right_pressed, left_pressed, rot, sun_pos, sun_angle, wheel,
                   programs, shadowmap_framebuffer, now, disk, edits, fbsize, drag,
                   device, down>>
    /\ UNCHANGED <<sphereVars, shaderVars>>

\* main.rs 403, 756: `while p.run` fails, main returns Ok(())
ReturnOk ==
    /\ fpc = "head"
    /\ ~run
    /\ fpc' = "returned"
    /\ UNCHANGED <<unit_i, run, right_pressed, left_pressed, rot, last_time,
                   average_frame_time, sun_pos, sun_angle, wheel, programs,
                   shadowmap_framebuffer, dt, width, height, projection,
                   now, disk, edits, fbsize, drag, device, log, down, scrolled>>
    /\ UNCHANGED <<sphereVars, shaderVars>>

\* main.rs 413-417: the next of the five calls of reload_if_changed
ReloadIfChanged ==
    /\ fpc = "reload"
    /\ LET u == Units[unit_i]
           r == reload_if_changed(programs[u], disk[u])
       IN /\ programs' = [programs EXCEPT ![u] = r.self]
          /\ log' = Append(log, [call |-> "reload_if_changed", unit |-> u,
                                 before |-> programs[u], seen |-> disk[u],
                                 result |-> r.result, reads |-> r.reads,
                                 compiles |-> r.compiles])
          /\ IF Propagates(r.result)
             THEN fpc' = "failed" /\ unit_i' = 0
             ELSE IF unit_i < Len(Units)
                  THEN fpc' = "reload" /\ unit_i' = unit_i + 1
                  ELSE fpc' = "poll" /\ unit_i' = 0
    /\ UNCHANGED <<run, right_pressed, left_pressed, rot, last_time,
                   average_frame_time, sun_pos, sun_angle, wheel,
                   shadowmap_framebuffer, dt, width, height, projection,
                   now, disk, edits, fbsize, drag, device, down, scrolled>>
    /\ UNCHANGED <<sphereVars, shaderVars>>

\* main.rs 426-428, delivered by poll_events
CloseRequested_exit ==
    /\ fpc = "poll"
    /\ run' = FALSE
    /\ fpc' = "returned"
    /\ UNCHANGED <<unit_i, right_pressed, left_pressed, rot, last_time,
                   average_frame_time, sun_pos, sun_angle, wheel, programs,
                   shadowmap_framebuffer, dt, width, height, projection,
                   now, disk, edits, fbsize, drag, device, log, down, scrolled>>
    /\ UNCHANGED <<sphereVars, shaderVars>>

CloseRequested ==
    /\ fpc = "poll"
    /\ run' = FALSE
    /\ UNCHANGED <<fpc, unit_i, right_pressed, left_pressed, rot, last_time,
                   average_frame_time, sun_pos, sun_angle, wheel, programs,
                   shadowmap_framebuffer, dt, width, height, projection,
                   now, disk, edits, fbsize, drag, device, log, down, scrolled>>
    /\ UNCHANGED <<sphereVars, shaderVars>>

\* main.rs 429-467, delivered by poll_events; the keys other than Left and
\* Right go to imgui alone.
KeyboardInput ==
    /\ fpc = "poll"
    /\ \E key \in {"Left", "Right", "Tab"}, state \in {"Pressed", "Released"} :
          LET pressed == state = "Pressed"
          IN /\ left_pressed' = IF key = "Left" THEN pressed ELSE left_pressed
             /\ right_pressed' = IF key = "Right" THEN pressed ELSE right_pressed
             /\ down' = IF state = "Pressed" THEN down \cup {key} ELSE down \ {key}
    /\ UNCHANGED <<fpc, unit_i, run, rot, last_time,
                   average_frame_time, sun_pos, sun_angle, wheel, programs,
                   shadowmap_framebuffer, dt, width, height, projection,
                   now, disk, edits, fbsize, drag, device, log, scrolled>>
    /\ UNCHANGED <<sphereVars, shaderVars>>

\* main.rs 488-501, delivered by poll_events
MouseWheel ==
    /\ fpc = "poll"
    /\ \E y \in 1..MaxWheel : wheel' = y /\ scrolled' = scrolled \cup {y}
    /\ UNCHANGED <<fpc, unit_i, run, right_pressed, left_pressed, rot, last_time,
                   average_frame_time, sun_pos, sun_angle, programs,
                   shadowmap_framebuffer, dt, width, height, projection,
                   now, disk, edits, fbsize, drag, device, log, down>>
    /\ UNCHANGED <<sphereVars, shaderVars>>

\* main.rs 419-507: poll_events returns
PollReturn ==
    /\ fpc = "poll"
    /\ fpc' = "update"
    /\ log' = Append(log, [call |-> "poll_events"])
    /\ UNCHANGED <<unit_i, run, right_pressed, left_pressed, rot, last_time,
                   average_frame_time, sun_pos, sun_angle, wheel, programs,
                   shadowmap_framebuffer, dt, width, height, projection,
                   now, disk, edits, fbsize, drag, device, down, scrolled>>
    /\ UNCHANGED <<sphereVars, shaderVars>>

\* main.rs 509-547: the hand-off to imgui, the rotation, the framebuffer
\* dimensions, update_ui (main.rs 327-348) and the projection
\* The wheel is handed over divided by scale.1, which is the 1.0 that
\* FrameSize::new is given at main.rs 538.
Update ==
    /\ fpc = "update"
    /\ fpc' = "shadow"
    /\ rot' = Rotate(rot, right_pressed, left_pressed, dt)
    /\ width' = fbsize[1]
    /\ height' = fbsize[2]
    /\ log' = log \o << [call |-> "set_mouse_wheel", y |-> wheel],
                        [call |-> "text_fps", divisor |-> average_frame_time],
                        [call |-> "slider_float", changed |-> drag # <<>>,
                         value |-> IF drag # <<>> THEN drag[1] ELSE sun_angle] >>
    /\ IF drag # <<>>
       THEN /\ sun_angle' = drag[1]
            /\ sun_pos' = SunVector(drag[1])
       ELSE UNCHANGED <<sun_angle, sun_pos>>
    /\ drag' = <<>>
    /\ projection' = <<fbsize[1], fbsize[2]>>
    /\ UNCHANGED <<unit_i, run, right_pressed, left_pressed, last_time,
                   average_frame_time, wheel, programs, shadowmap_framebuffer, dt,
                   now, disk, edits, fbsize, device, down, scrolled>>
    /\ UNCHANGED <<sphereVars, shaderVars>>

\* The calls of a pass that are made when the device has failed: the clears,
\* and the first draw, whose error `?` returns from main.
UntilError(calls) == SubSeq(calls, 1, 2)

\* main.rs 554-624
ShadowPass ==
    /\ fpc = "shadow"
    /\ IF device = "ok"
       THEN fpc' = "composite" /\ log' = log \o ShadowCalls
       ELSE fpc' = "failed" /\ log' = log \o UntilError(ShadowCalls)
    /\ UNCHANGED <<unit_i, run, right_pressed, left_pressed, rot, last_time,
                   average_frame_time, sun_pos, sun_angle, wheel, programs,
                   shadowmap_framebuffer, dt, width, height, projection,
                   now, disk, edits, fbsize, drag, device, down, scrolled>>
    /\ UNCHANGED <<sphereVars, shaderVars>>

\* main.rs 626-753
CompositePass ==
    /\ fpc = "composite"
    /\ IF device = "ok"
       THEN fpc' = "head" /\ log' = log \o CompositeCalls
       ELSE fpc' = "failed" /\ log' = log \o UntilError(CompositeCalls)
    /\ UNCHANGED <<unit_i, run, right_pressed, left_pressed, rot, last_time,
                   average_frame_time, sun_pos, sun_angle, wheel, programs,
                   shadowmap_framebuffer, dt, width, height, projection,
                   now, disk, edits, fbsize, drag, device, down, scrolled>>
    /\ UNCHANGED <<sphereVars, shaderVars>>

Frame == BeginFrame \/ ReturnOk \/ ReloadIfChanged \/ PollReturn \/ Update
            \/ ShadowPass \/ CompositePass

-----------------------------------------------------------------------------
(* Specifications *)

\* create_sphere not yet called, for the runs of the Shader alone.
SphereRest ==
    /\ segments = 2
    /\ radius = 1
    /\ vertices = vertex_list(2)
    /\ indices = index_list(2)
    /\ vwrites = [k \in DOMAIN vertex_list(2) |-> 0]
    /\ twrites = [k \in DOMAIN index_list(2) |-> <<>>]
    /\ spc = "top" /\ sj = 0 /\ si = 0
    /\ ref = <<>>

\* main before its first frame: State::new has returned (main.rs 401), the
\* off-screen target has the size of the window (main.rs 384-399), no source
\* file has changed since the units were loaded.
FrameRest ==
    /\ fpc = "head"
    /\ unit_i = 0
    /\ run = TRUE
    /\ right_pressed = FALSE
    /\ left_pressed = FALSE
    /\ rot = 0
    /\ last_time = 0
    /\ average_frame_time = "zero"
    /\ sun_pos = InitialSunPos
    /\ sun_angle = 0
    /\ wheel = 0
    /\ programs = [u \in UnitNames |-> Loaded]
    /\ shadowmap_framebuffer = [texture |-> StartSize, depth |-> StartSize]
    /\ dt = 0
    /\ width = 0 /\ height = 0 /\ projection = <<0, 0>>
    /\ now = 0
    /\ disk = [u \in UnitNames |-> [st |-> "ok", mtime |-> 0]]
    /\ edits = 0
    /\ fbsize = StartSize
    /\ drag = <<>>
    /\ device = "ok"
    /\ log = <<>>
    /\ down = {}
    /\ scrolled = {}

\* The thread is about to run Shader::load (main.rs 309); both source files
\* exist and were last modified before the program started.
ShaderInit ==
    /\ files \in [Paths -> [st : {"ok"}, mtime : 0..InitClock, good : BOOLEAN]]
    /\ clock = InitClock
    /\ shader = NoShader
    /\ pc = "meta_first"
    /\ op = "load"
    /\ t_first = 0 /\ new_time = 0
    /\ src_vert = NoSource /\ src_frag = NoSource
    /\ nprog = 0
    /\ pre = NoShader
    /\ res = "none"
    /\ clean = FALSE
    /\ done = <<>>
    /\ touch = NoTouch
    /\ SphereRest
    /\ FrameRest

\* The shader side at rest, for the runs of create_sphere alone.
ShaderRest ==
    /\ files = [f \in Paths |-> [st |-> "ok", mtime |-> 0, good |-> TRUE]]
    /\ clock = InitClock
    /\ shader = NoShader
    /\ pc = "meta_first"
    /\ op = "load"
    /\ t_first = 0 /\ new_time = 0
    /\ src_vert = NoSource /\ src_frag = NoSource
    /\ nprog = 0
    /\ pre = NoShader
    /\ res = "none"
    /\ clean = FALSE
    /\ done = <<>>
    /\ touch = NoTouch

SphereInit ==
    /\ segments \in 0..MaxSegs
    /\ radius \in 1..MaxRadius
    /\ vertices = vertex_list(segments)
    /\ indices = index_list(segments)
    /\ vwrites = [k \in DOMAIN vertex_list(segments) |-> 0]
    /\ twrites = [k \in DOMAIN index_list(segments) |-> <<>>]
    /\ spc = "top" /\ sj = 0 /\ si = 0
    /\ ref = <<>>
    /\ ShaderRest
    /\ FrameRest

SphereNext == Top \/ Bottom \/ Ring \/ TopCap \/ Middle \/ BottomCap \/ CallAgain

SphereSpec == SphereInit /\ [][SphereNext]_vars

ShaderNext == Thread \/ Writer

ShaderSpec == ShaderInit /\ [][ShaderNext]_vars

\* The frame loop runs on while p.run holds (main.rs 403-417): a thread step
\* that can be taken is taken.
ShaderFairSpec == ShaderSpec /\ WF_vars(Thread)

FrameInit ==
    /\ FrameRest
    /\ SphereRest
    /\ ShaderRest

\* The frame loop with the source files, the window size and the graphics
\* device changing under it.
RenderNext == Frame \/ CloseRequested \/ FsChange \/ Resize \/ DeviceFault

RenderSpec == FrameInit /\ [][RenderNext]_vars

\* The frame loop with time passing and the user at the keyboard, the wheel
\* and the slider.
InputNext == Frame \/ CloseRequested \/ Tick \/ KeyboardInput \/ MouseWheel \/ DragSlider

InputSpec == FrameInit /\ [][InputNext]_vars

\* The thread of main runs on: a step of the frame loop that can be taken is
\* taken, whatever the files, the window and the device do.
RenderFairSpec == RenderSpec /\ WF_vars(Frame)

-----------------------------------------------------------------------------
(* Properties of create_sphere *)

Edges(t) == {<<t[1], t[2]>>, <<t[2], t[3]>>, <<t[3], t[1]>>}

FracEq(a, b) == a[1] * b[2] = b[1] * a[2]

\* The same point of space: equal length, equal polar angle, and azimuths
\* that differ by whole turns.
SamePoint(p, q) ==
    /\ p.s = q.s
    /\ FracEq(p.th, q.th)
    /\ FracEq(<<p.ph[1] % p.ph[2], p.ph[2]>>, <<q.ph[1] % q.ph[2], q.ph[2]>>)

Written == {k \in DOMAIN vwrites : vwrites[k] >= 1}

\* C1: closed mesh.  After create_sphere with segments >= 2, every directed
\* edge (a,b) of a triangle has its reverse (b,a) in exactly one other
\* triangle, and no other triangle has (a,b) itself (on vertex indices).
C1_ClosedMesh ==
    (spc = "done" /\ segments >= 2) =>
        \A k \in DOMAIN indices : \A e \in Edges(indices[k]) :
            /\ Cardinality({m \in DOMAIN indices \ {k} :
                               <<e[2], e[1]>> \in Edges(indices[m])}) = 1
            /\ \A m \in DOMAIN indices \ {k} : e \notin Edges(indices[m])

\* C4: texture seam continuity.  After create_sphere with segments >= 2, in
\* every ring j the vertex of column 0 and the vertex of column hsegs have the
\* same position and normal and u = 0 and u = 1; the seam slot is assigned.
C4_SeamContinuity ==
    (spc = "done" /\ segments >= 2) =>
        \A j \in 0..(segments - 2) :
            LET hs == 2 * segments
                first == 1 + j * (hs + 1)
                seam == 1 + j * (hs + 1) + hs
            IN /\ vwrites[seam] >= 1
               /\ SamePoint(vertices[first].pos, vertices[seam].pos)
               /\ SamePoint(vertices[first].normal, vertices[seam].normal)
               /\ FracEq(vertices[first].tex[1], <<0, 1>>)
               /\ FracEq(vertices[seam].tex[1], <<1, 1>>)

\* C5: triangle count and band disjointness.  No triangle slot is ever
\* written twice, and after create_sphere with segments >= 2 the slots are
\* 0..n-1 with n = hsegs + (segments-2)*hsegs*2 + hsegs (8 for segments = 2),
\* each written exactly once: the first hsegs by the top cap, the next
\* (segments-2)*2*hsegs by the middle bands, the last hsegs by the bottom cap.
C5_TriangleBands ==
    /\ \A k \in DOMAIN twrites : Len(twrites[k]) <= 1
    /\ (spc = "done" /\ segments >= 2) =>
          LET hs == 2 * segments
              n == hs + (segments - 2) * hs * 2 + hs
          IN /\ DOMAIN indices = 0..(n - 1)
             /\ (segments = 2 => n = 8)
             /\ \A k \in 0..(n - 1) :
                   twrites[k] = IF k < hs THEN <<"top">>
                                ELSE IF k < hs + (segments - 2) * 2 * hs
                                     THEN <<"middle">>
                                     ELSE <<"bottom">>

\* A finished call whose middle bands are not empty.
C5_Witness == spc = "done" /\ segments >= 3 /\ twrites[2 * segments] = <<"middle">>

\* C6: vertex count.  After create_sphere with segments = s >= 2 exactly
\* 1 + (s-1)*(2s+1) + 1 vertices are generated: every slot 0..nverts-1 holds
\* a vertex the tessellator wrote (the poles first and last, 2s+1 per ring).
C6_VertexCount ==
    (spc = "done" /\ segments >= 2) =>
        LET n == 1 + (segments - 1) * (2 * segments + 1) + 1
        IN /\ DOMAIN vertices = 0..(n - 1)
           /\ (segments = 2 => n = 7)
           /\ Cardinality(Written) = n
           /\ \A k \in 0..(n - 1) : vwrites[k] >= 1

\* C7: degenerate-segment floor.  A call with segments = 0 or 1 ends without
\* a panic and leaves what the call with segments = 2 and the same radius
\* left: the same vertex slots written with the same vertices, the same
\* triangle slots with the same index triples, and not an empty mesh.
C7_DegenerateFloor ==
    (spc \in {"done", "panic"} /\ segments < 2 /\ ref # <<>>) =>
        (ref[1].radius = radius =>
            /\ spc = "done"
            /\ Returned = ref[1]
            /\ Written # {}
            /\ \E k \in DOMAIN indices : indices[k] # DefaultTriangle)

\* A finished degenerate call made after a call with segments = 2 and the
\* same radius.
C7_Witness ==
    /\ spc = "done" /\ segments = 0
    /\ ref # <<>> /\ ref[1].radius = radius
    /\ Cardinality(Written) = 6

\* C19: consistent winding.  After create_sphere with segments >= 2 no
\* directed edge (a,b) occurs in more than one triangle: two triangles that
\* share an edge traverse it in opposite directions, in the top cap, the
\* middle bands with their wrapped last column, and the bottom cap.
C19_ConsistentWinding ==
    (spc = "done" /\ segments >= 2) =>
        \A k, m \in DOMAIN indices :
            k # m => Edges(indices[k]) \cap Edges(indices[m]) = {}

\* A finished call with middle bands: a cap triangle and a middle triangle
\* share an edge in opposite directions, and so do a triangle of the wrapped
\* last column and another middle triangle.
C19_Witness ==
    /\ spc = "done" /\ segments >= 3
    /\ \E k, m \in DOMAIN indices :
          /\ twrites[k] = <<"top">> /\ twrites[m] = <<"middle">>
          /\ \E e \in Edges(indices[k]) : <<e[2], e[1]>> \in Edges(indices[m])
    /\ \E k, m \in DOMAIN indices :
          /\ k # m /\ twrites[k] = <<"middle">> /\ twrites[m] = <<"middle">>
          /\ indices[k][3] < indices[k][1]
          /\ \E e \in Edges(indices[k]) : <<e[2], e[1]>> \in Edges(indices[m])

\* C21: index and slot bounds.  In a call with segments >= 2 on buffers of
\* 1 + (segments-1)*(2*segments+1) + 1 vertices and 2*segments*(2*segments-2)
\* triangles, no write is outside a slice (no panic), every index stored in a
\* triangle is in 0..nverts-1, and the flattened index list holds each index
\* unchanged by the conversion to u32.
C21_InBounds ==
    segments >= 2 =>
        LET nv == 1 + (segments - 1) * (2 * segments + 1) + 1
            nt == 2 * segments * (2 * segments - 2)
        IN /\ DOMAIN vertices = 0..(nv - 1)
           /\ DOMAIN indices = 0..(nt - 1)
           /\ spc # "panic"
           /\ \A k \in DOMAIN indices : \A c \in 1..3 :
                 /\ indices[k][c] \in 0..(nv - 1)
                 /\ flat_index_list[3 * k + (c - 1)] = <<0, indices[k][c]>>

\* A finished call with middle bands: every triangle slot is written and the
\* last vertex slot is indexed.
C21_Witness ==
    /\ spc = "done" /\ segments >= 3
    /\ \A k \in DOMAIN twrites : twrites[k] # <<>>
    /\ \E k \in DOMAIN indices : indices[k][1] = nverts - 1
    /\ vwrites[nverts - 1] = 1

-----------------------------------------------------------------------------
(* Properties of the Shader unit *)

Failures == {"meta_error", "read_error", "compile_error"}

Newest(a, b) == IF a > b THEN a ELSE b

\* Both source files are present and readable, and their content compiles.
Compilable == \A f \in Paths : files[f].st = "ok" /\ files[f].good

\* C2: reload failure preserves prior state.  While reload_if_changed runs,
\* and after it ended in a failure (timestamp lookup, read or compilation),
\* the unit's program handle, program_time and paths are those of before the
\* call.
C2_FailurePreserves ==
    /\ (op = "reload" /\ pc # "idle") => shader = pre
    /\ (op = "reload" /\ pc = "idle" /\ res \in Failures) => shader = pre

\* A reload that found newer sources and failed to compile them.
C2_Witness ==
    /\ op = "reload" /\ pc = "idle" /\ res = "compile_error"
    /\ Newest(files[FragPath].mtime, files[VertPath].mtime) > shader.program_time

\* C3: program/timestamp consistency.  The stored program_time of a loaded
\* unit is the maximum modification time of the source-file versions its
\* program was compiled from, whatever the writer does in between.
C3_TimestampConsistent ==
    loaded => shader.program_time = Newest(shader.program.vert, shader.program.frag)

\* C8 as claimed: of two calls of reload_if_changed in succession with no
\* modification of a source file since the first began, the second compiles
\* nothing and leaves the unit unchanged.
C8_SecondCallIdle ==
    Len(done) = 2 => ~done[2].compiled /\ ~done[2].changed

\* C8 as amended: of two such calls the second leaves the unit unchanged, and
\* compiles nothing unless the compilation of the first failed, in which case
\* it compiles the same sources again and fails again.
C8_SecondCallIdleUnlessFailed ==
    Len(done) = 2 =>
        /\ ~done[2].changed
        /\ done[2].compiled =>
              (done[1].res = "compile_error" /\ done[2].res = "compile_error")
        /\ done[1].res \in {"ok", "unchanged"} => done[2].res = "unchanged"

\* A reload that succeeded, followed by a check with the files untouched.
C8_Witness ==
    Len(done) = 2 /\ done[1].res = "ok" /\ done[2].res = "unchanged"

\* C9: one recompilation per touch.  After one touch of either source file of
\* an up-to-date unit (and no other modification) there is never more than
\* one compilation, and once a check that began after the touch has returned
\* there has been exactly one and the unit is up to date again: the first
\* following check recompiles, every later one does nothing.
C9_OneRecompilePerTouch ==
    touch.on =>
        /\ touch.compiles <= 1
        /\ touch.checks >= 1 => (touch.compiles = 1 /\ UpToDate)

\* Two checks have returned since the touch.
C9_Witness == touch.on /\ touch.checks = 2 /\ touch.compiles = 1

\* C10: retry until the last-good program is replaced.  A reload that fails
\* leaves the program in place; a check that finds the sources newer than
\* the stored timestamp goes on to Shader::new, whatever the previous check's
\* outcome; a loaded unit whose sources are readable and compile is
\* eventually up to date with them (their program, stamped with their newest
\* modification time), unless they are modified into something that does not
\* compile; and no compilation is made for an up-to-date unit.
C10_RetryUntilReplaced ==
    /\ [][(op = "reload" /\ pc # "idle" /\ pc' = "idle" /\ res' \in Failures)
          => shader'.program = shader.program]_vars
    /\ [][(op = "reload" /\ pc = "meta_second" /\ pc' # "meta_second"
           /\ files[vert_path].st # "missing"
           /\ Newest(t_first, files[vert_path].mtime) > shader.program_time)
          => pc' = "read_vert"]_vars
    /\ (loaded /\ Compilable) ~> (UpToDate \/ ~Compilable)
    /\ [][UpToDate => ~(pc = "compile" /\ pc' # "compile")]_vars

\* A reload failed to compile, the sources have since been repaired, and the
\* unit still holds the previous program.
C10_Witness ==
    /\ pc = "idle" /\ res = "compile_error"
    /\ loaded /\ Compilable /\ ~UpToDate

-----------------------------------------------------------------------------
(* Properties of the frame loop *)

IsPrefix(s, t) == Len(s) <= Len(t) /\ SubSeq(t, 1, Len(s)) = s

\* The positions of the log that hold a call on the surface t.
CallsOn(t) == {n \in 1..Len(log) : log[n].call \in {"clear_color", "clear_depth", "draw",
                                                    "blit_from_simple_framebuffer",
                                                    "render", "finish"}
                                    /\ log[n].target = t}

\* What a call of the log is: for a draw the buffers, the uniforms, the unit
\* whose program is used, the depth test, the blending and the culling.
Shape(e) ==
    IF e.call = "draw"
    THEN <<"draw", e.vertex_buffer, e.index_buffer, e.uniforms, e.unit,
           e.params.depth, e.params.blend, e.params.backface_culling>>
    ELSE IF e.call = "blit_from_simple_framebuffer"
    THEN <<e.call, e.source>>
    ELSE <<e.call>>

\* The calls of the log on the surface t, in order.
RECURSIVE ShapesFrom(_, _)
ShapesFrom(n, t) ==
    IF n > Len(log) THEN <<>>
    ELSE IF n \in CallsOn(t) THEN <<Shape(log[n])>> \o ShapesFrom(n + 1, t)
    ELSE ShapesFrom(n + 1, t)

\* The frame of the log was presented.
Presented == log # <<>> /\ log[Len(log)].call = "finish"

\* C11: resize handling.  In every frame the projection aspect ratio and the
\* sizes of the lightmap texture and of the shadow depth buffer are the
\* framebuffer dimensions read in that frame.
C11_ResizeHandling ==
    fpc \in {"shadow", "composite"} =>
        /\ projection = <<width, height>>
        /\ shadowmap_framebuffer.texture = <<width, height>>
        /\ shadowmap_framebuffer.depth = <<width, height>>

\* C12 as claimed: the calls on the visible framebuffer are, in this order,
\* the clear, the starfield as unindexed points with depth test and no
\* culling, the planet mesh with clockwise culling and depth test, the cloud
\* mesh with alpha blending and counter-clockwise culling, the cloud mesh with
\* alpha blending and clockwise culling, the blit of the off-screen target,
\* the UI render and the present.
C12_CompositeOrder ==
    LET claimed ==
          << <<"clear_color">>, <<"clear_depth">>,
             <<"draw", "star_buffer", "NoIndices(Points)", "star_uniforms",
               "star_program", "IfLess", "default", "CullingDisabled">>,
             <<"draw", "vertex_buffer", "index_buffer", "planet_uniforms",
               "planet_program", "IfLess", "default", "CullClockwise">>,
             <<"draw", "vertex_buffer", "index_buffer", "cloud_uniforms",
               "cloud_program", "IfLess", "alpha_blending", "CullCounterClockwise">>,
             <<"draw", "vertex_buffer", "index_buffer", "cloud_uniforms",
               "cloud_program", "IfLess", "alpha_blending", "CullClockwise">>,
             <<"blit_from_simple_framebuffer", "shadowmap_framebuffer">>,
             <<"render">>, <<"finish">> >>
    IN /\ IsPrefix(ShapesFrom(1, "target"), claimed)
       /\ (fpc = "head" /\ log # <<>>) => ShapesFrom(1, "target") = claimed

\* C12 as amended: the same calls with the same parameters, the planet mesh
\* drawn before the starfield.
C12_CompositeOrderPlanetFirst ==
    LET made ==
          << <<"clear_color">>, <<"clear_depth">>,
             <<"draw", "vertex_buffer", "index_buffer", "planet_uniforms",
               "planet_program", "IfLess", "default", "CullClockwise">>,
             <<"draw", "star_buffer", "NoIndices(Points)", "star_uniforms",
               "star_program", "IfLess", "default", "CullingDisabled">>,
             <<"draw", "vertex_buffer", "index_buffer", "cloud_uniforms",
               "cloud_program", "IfLess", "alpha_blending", "CullCounterClockwise">>,
             <<"draw", "vertex_buffer", "index_buffer", "cloud_uniforms",
               "cloud_program", "IfLess", "alpha_blending", "CullClockwise">>,
             <<"blit_from_simple_framebuffer", "shadowmap_framebuffer">>,
             <<"render">>, <<"finish">> >>
    IN /\ IsPrefix(ShapesFrom(1, "target"), made)
       /\ (fpc = "head" /\ log # <<>>) => ShapesFrom(1, "target") = made

\* A frame was presented after the window was resized and a unit reloaded.
C12_Witness ==
    /\ fpc = "head" /\ Presented
    /\ Cardinality(CallsOn("target")) = 9
    /\ fbsize # StartSize
    /\ programs["cloud_program"].program # Loaded.program

\* C13: shadow pass order.  The calls on the off-screen target are, in this
\* order, the clear, the planet mesh with the planet-shadow program and
\* clockwise culling, the cloud mesh with the cloud-shadow program and
\* counter-clockwise culling, the cloud mesh with the cloud-shadow program and
\* clockwise culling; all of them are made before the first call on the
\* visible framebuffer.
C13_ShadowOrder ==
    LET expected ==
          << <<"clear_color">>, <<"clear_depth">>,
             <<"draw", "vertex_buffer", "index_buffer", "planet_uniforms",
               "planet_shadowmap_program", "IfLess", "default", "CullClockwise">>,
             <<"draw", "vertex_buffer", "index_buffer", "cloud_uniforms",
               "cloud_shadowmap_program", "IfLess", "default", "CullCounterClockwise">>,
             <<"draw", "vertex_buffer", "index_buffer", "cloud_uniforms",
               "cloud_shadowmap_program", "IfLess", "default", "CullClockwise">> >>
    IN /\ IsPrefix(ShapesFrom(1, "shadowmap_framebuffer"), expected)
       /\ CallsOn("target") # {} =>
             /\ ShapesFrom(1, "shadowmap_framebuffer") = expected
             /\ \A s \in CallsOn("shadowmap_framebuffer"), c \in CallsOn("target") : s < c

\* The composite pass runs after a shadow pass that used a reloaded
\* cloud-shadow program.
C13_Witness ==
    /\ fpc = "head" /\ Presented
    /\ Cardinality(CallsOn("shadowmap_framebuffer")) = 5
    /\ \E n \in CallsOn("shadowmap_framebuffer") :
          /\ log[n].call = "draw"
          /\ log[n].unit = "cloud_shadowmap_program"
          /\ log[n].program # Loaded.program

\* The positions of the log that hold a call of reload_if_changed.
Reloads == {n \in 1..Len(log) : log[n].call = "reload_if_changed"}

\* C14: per-frame reload check.  In every frame reload_if_changed is called
\* once on each of the five units and on none twice, before poll_events
\* delivers an event and before any clear or draw; a check that finds the
\* sources no newer than program_time reads no file and compiles nothing.
C14_ReloadCheck ==
    /\ \A n \in Reloads : \A m \in 1..Len(log) : m < n => m \in Reloads
    /\ \A n, m \in Reloads : log[n].unit = log[m].unit => n = m
    /\ (fpc # "reload" /\ (fpc # "head" \/ log # <<>>)) =>
          {log[n].unit : n \in Reloads} =
              {"planet_program", "planet_shadowmap_program", "cloud_program",
               "cloud_shadowmap_program", "star_program"}
    /\ \A n \in Reloads :
          ~(log[n].seen.st # "missing" /\ log[n].seen.mtime > log[n].before.program_time)
              => (log[n].reads = 0 /\ log[n].compiles = 0)

\* poll_events is running in a frame where a unit that was reloaded earlier
\* was checked and left alone, and another was recompiled.
C14_Witness ==
    /\ fpc = "poll"
    /\ \E n \in Reloads : log[n].result = "unchanged" /\ log[n].before.program_time > 0
    /\ \E n \in Reloads : log[n].result = "ok"

\* C15: recoverable errors stay inside the shader unit.  A failed reload
\* leaves the loop running and goes on to the next call of the frame; main
\* returns an error only when a draw call does; the draws of the frame use,
\* for a unit whose reload failed, the program it held before; and a frame
\* makes all the calls of both passes unless a draw call fails.
C15_ReloadErrorsContained ==
    /\ [][(fpc = "reload" /\ log' # log /\ log'[Len(log')].result \in Failures)
          => (fpc' \in {"reload", "poll"} /\ run' = run /\ programs' = programs)]_vars
    /\ [](fpc = "failed" => device = "lost")
    /\ [](fpc = "returned" => ~run)
    /\ [](\A n \in 1..Len(log), m \in Reloads :
             (log[n].call = "draw" /\ log[n].unit = log[m].unit
              /\ log[m].result \in Failures)
                 => log[n].program = log[m].before.program)
    /\ []((fpc = "head" /\ log # <<>>) =>
             /\ Presented
             /\ Cardinality(CallsOn("shadowmap_framebuffer")) = 5
             /\ Cardinality(CallsOn("target")) = 9)

\* A frame was presented in which the reload of a unit failed to compile,
\* the unit holding the program of an earlier reload.
C15_Witness ==
    /\ fpc = "head" /\ Presented
    /\ \E m \in Reloads : /\ log[m].result = "compile_error"
                          /\ log[m].before.program # Loaded.program

\* The positions of the log that hold the call named c.
Calls(c) == {n \in 1..Len(log) : log[n].call = c}

\* C16: FPS readout guard.  In no frame is the FPS readout computed by
\* dividing by an average_frame_time that is zero.
C16_FpsGuard ==
    \A n \in Calls("text_fps") : log[n].divisor # "zero"

\* C17 as claimed: when the slider sets the sun angle to 0 degrees, the x
\* component of the re-derived sun vector is the distance scale times cos(0),
\* the other components are 0, and no component is minus the scale.
C17_SunAtZero ==
    (\E n \in Calls("slider_float") : log[n].changed /\ log[n].value = 0) =>
        /\ sun_pos.k = 10000
        /\ sun_pos.v[1] = TrigUnit
        /\ sun_pos.v[2] = 0
        /\ sun_pos.v[3] = 0
        /\ \A i \in 1..3 : sun_pos.v[i] # 0 - TrigUnit

\* C17 as amended: when the slider sets the sun angle to 0 degrees, the
\* re-derived sun vector is (scale * sin(0), 0, -scale * cos(0)): x and y are
\* 0 and z is minus the distance scale.
C17_SunAtZeroMinusZ ==
    (\E n \in Calls("slider_float") : log[n].changed /\ log[n].value = 0) =>
        /\ sun_pos.k = 10000
        /\ sun_pos.v[1] = 0
        /\ sun_pos.v[2] = 0
        /\ sun_pos.v[3] = 0 - TrigUnit

\* The slider was dragged away from 0 degrees and, in this frame, back to it.
C17_Witness ==
    /\ fpc = "shadow"
    /\ sun_angle = 0
    /\ \E n \in Calls("slider_float") : log[n].changed /\ log[n].value = 0

\* C18: the sun vector is derived from the angle.  In every state, the
\* initial one included, sun_pos is the vector that update_ui derives from
\* the current sun_angle.
C18_SunDerived ==
    sun_pos = SunVector(sun_angle)

\* C20: rotation integration.  The rotation step of a frame adds dt*45 to rot
\* when the last event of the right key was its key-down, subtracts dt*45
\* when the last event of the left key was its key-down, and leaves rot alone
\* when neither holds; no other step or event changes rot.
C20_RotationIntegration ==
    /\ [][(fpc = "update" /\ fpc' = "shadow") =>
             rot' = rot + (IF "Right" \in down THEN dt * 45 ELSE 0)
                        - (IF "Left" \in down THEN dt * 45 ELSE 0)]_vars
    /\ [][~(fpc = "update" /\ fpc' = "shadow") => rot' = rot]_vars

\* The left key was held over two frames of one tick each and released; the
\* right key is held now, and the rotation step has run.
C20_Witness ==
    /\ fpc = "shadow"
    /\ down = {"Right"}
    /\ dt = 0
    /\ rot = 0 - 2 * 45

\* C23: the scroll delta is per frame.  The delta handed to imgui in a frame
\* is the delta of a MouseWheel event delivered by that frame's poll_events,
\* and is zero in a frame in which none was delivered.
C23_ScrollPerFrame ==
    \A n \in Calls("set_mouse_wheel") :
        IF scrolled = {} THEN log[n].y = 0 ELSE log[n].y \in scrolled

\* C22: loop termination on close.  A CloseRequested event makes run false
\* and run is never made true again; once run is false no frame begins, and
\* main returns, with Ok(()) unless a draw call fails; when main returns Ok
\* run is false and the frame in which the event was delivered has made all
\* the calls of the shadow pass and of the composite pass and was presented;
\* run becomes false only while poll_events delivers events, and main
\* returns an error only when a draw call fails.
C22_CloseTerminates ==
    /\ [][(fpc = "poll" /\ run' # run) => ~run']_vars
    /\ [][run' => run]_vars
    /\ [][(run /\ ~run') => (fpc = "poll" /\ fpc' = "poll")]_vars
    /\ [][~run => ~(fpc = "head" /\ fpc' = "reload")]_vars
    /\ [](fpc = "returned" =>
             /\ ~run
             /\ Presented
             /\ Cardinality(CallsOn("shadowmap_framebuffer")) = 5
             /\ Cardinality(CallsOn("target")) = 9)
    /\ [](fpc = "failed" => (device = "lost" /\ ~Presented))
    /\ (~run) ~> (fpc \in {"returned", "failed"})
    /\ (~run /\ device = "ok") ~> (fpc = "returned" \/ device = "lost")

\* main has returned Ok(()) after a close request in its second frame or
\* later, a unit reloaded on the way.
C22_Witness ==
    /\ fpc = "returned" /\ ~run /\ device = "ok"
    /\ Presented
    /\ \E u \in UnitNames : programs[u].program # Loaded.program

====
